---- MODULE Spec2Model ----
(***************************************************************************)
(* Model of homework.py: a bot that polls the homework-status API, turns   *)
(* the first homework of the answer into a status line and forwards it to  *)
(* a Telegram chat, with content-based de-duplication of the messages.     *)
(*                                                                         *)
(* Texts are sequences of string pieces (the literal parts and the         *)
(* interpolated parts of an f-string); the empty string '' is << >>.       *)
(* The Russian literals of the source are written as ASCII glosses.        *)
(***************************************************************************)
EXTENDS Integers, Sequences, FiniteSets, TLC

\* Largest wall-clock reading (abstract seconds) the API or the clock yields.
MaxTime == 3

\* ------------------------------------------------------------------------
\* Python values
\* ------------------------------------------------------------------------

\* Python's None, where a str is expected.
None == "<None>"

\* HTTPStatus.OK
HTTPStatus_OK == 200

\* settings.ENDPOINT
ENDPOINT == "<ENDPOINT>"

\* settings.HOMEWORK_STATUSES: three verdicts, keyed by the status code.
HOMEWORK_STATUSES ==
    [approved  |-> "The work is checked: the reviewer liked everything. Hooray!",
     reviewing |-> "The work was taken for review by the reviewer.",
     rejected  |-> "The work is checked: the reviewer has remarks."]

\* dict.get(key) on HOMEWORK_STATUSES: the verdict, or None.
StatusesGet(key) ==
    IF key \in DOMAIN HOMEWORK_STATUSES THEN HOMEWORK_STATUSES[key] ELSE None

\* An exception object: its class and the text it was built with.
Exc(type, args) == [type |-> type, args |-> args]

NoError == Exc("", << >>)

\* str(error) as the f-string of main renders it: a KeyError shows the repr
\* of its argument (in quotes), every other exception shows the argument.
str(error) ==
    IF error.type = "KeyError" THEN <<"'">> \o error.args \o <<"'">>
    ELSE error.args

\* A call's outcome: it raised error, or it returned value.
Raise(error) == [raised |-> TRUE, error |-> error]
Return(value) == [raised |-> FALSE, value |-> value]

\* str() of an HTTP status code.
StatusCodeStr(code) ==
    CASE code = 200 -> "200"
      [] code = 404 -> "404"
      [] code = 500 -> "500"
      [] OTHER -> "<code>"

\* ------------------------------------------------------------------------
\* Inputs: what the network, the API and the bot can answer
\* ------------------------------------------------------------------------

\* Wall-clock readings of time.time() (positive: the epoch is long past).
Clock == 1..MaxTime

\* Offsets of the host's local time from UTC (abstract seconds).
TzOffsets == {-1, 0, 1}

\* Values of the three environment variables: unset, empty, set.
EnvValues == {None, "", "token"}

\* A date_updated value: absent from the item, a string not in the format
\* '%Y-%m-%dT%H:%M:%SZ', or a string in it reading wall-clock second wall.
Dates ==
    {[kind |-> "absent", wall |-> 0], [kind |-> "malformed", wall |-> 0]}
    \cup {[kind |-> "wellformed", wall |-> w] : w \in 0..MaxTime}

\* One element of the homeworks list: a mapping with optional fields, or
\* some other JSON value.
Item(is_dict, homework_name, status, date_updated) ==
    [is_dict |-> is_dict, homework_name |-> homework_name,
     status |-> status, date_updated |-> date_updated]

\* Items whose name and status parse, with every kind of date.
ParsableItems ==
    {Item(TRUE, n, s, d) : n \in {"", "proj1"}, s \in {"approved", "rejected"},
                           d \in Dates}

\* Items whose name or status does not parse, and a non-mapping.
BrokenItems ==
    {Item(TRUE, None, "approved", [kind |-> "wellformed", wall |-> MaxTime]),
     Item(TRUE, "proj1", None, [kind |-> "wellformed", wall |-> MaxTime]),
     Item(TRUE, "proj1", "unknown", [kind |-> "wellformed", wall |-> MaxTime]),
     Item(TRUE, "proj1", "", [kind |-> "wellformed", wall |-> MaxTime]),
     Item(FALSE, None, None, [kind |-> "absent", wall |-> 0])}

Items == ParsableItems \cup BrokenItems

\* An older homework following the first one in the list.
OlderItem == Item(TRUE, "proj0", "reviewing", [kind |-> "wellformed", wall |-> 0])

HomeworkLists ==
    {<< >>} \cup {<<i>> : i \in Items} \cup {<<i, OlderItem>> : i \in BrokenItems}

\* A decoded JSON body: a mapping or not, with the key 'homeworks' or not
\* ('homeworks' in response; true of the list ["homeworks"] as well), whose
\* value is a list or not.
JsonValue(is_dict, has_homeworks, is_list, homeworks) ==
    [is_dict |-> is_dict, has_homeworks |-> has_homeworks,
     is_list |-> is_list, homeworks |-> homeworks]

JsonValues ==
    {JsonValue(FALSE, FALSE, FALSE, << >>),
     JsonValue(FALSE, TRUE, FALSE, << >>),
     JsonValue(TRUE, FALSE, FALSE, << >>),
     JsonValue(TRUE, TRUE, FALSE, << >>)}
    \cup {JsonValue(TRUE, TRUE, TRUE, l) : l \in HomeworkLists}

\* What requests.get does: raises, or answers with a status code and a body
\* that decodes as JSON or does not.
NetOutcome(exc, status_code, json_ok, body) ==
    [exc |-> exc, status_code |-> status_code, json_ok |-> json_ok,
     body |-> body]

NetOutcomes ==
    {NetOutcome(TRUE, 0, FALSE, JsonValue(FALSE, FALSE, FALSE, << >>)),
     NetOutcome(FALSE, 500, FALSE, JsonValue(FALSE, FALSE, FALSE, << >>)),
     NetOutcome(FALSE, 200, FALSE, JsonValue(FALSE, FALSE, FALSE, << >>))}
    \cup {NetOutcome(FALSE, 200, TRUE, v) : v \in JsonValues}

\* ------------------------------------------------------------------------
\* The functions of homework.py
\* ------------------------------------------------------------------------

\* A float, held in tenths: Float(n) is the float n.0.
Float(n) == n * 10

\* int(x) of a float (in tenths): truncation toward zero.
int(x) == IF x >= 0 THEN x \div 10 ELSE -((-x) \div 10)

\* The text handed to bot.send_message.
BotText(message) == <<"Hello, here is the status of your work: ">> \o message \o <<".">>

\* Variant of send_message: the delivery failure is logged and raised again.
send_message_reraises(message, delivered) ==
    IF delivered
    THEN [raised |-> FALSE, error |-> NoError,
          logs |-> << <<"INFO", <<"Message sent.">> >> >>]
    ELSE [raised |-> TRUE, error |-> Exc("TelegramError", <<"<telegram error>">>),
          logs |-> << <<"INFO", <<"Could not send the message: ", "<telegram error>">> >> >>]

\* send_message(bot, message): calls the bot; a delivery failure is caught
\* and logged. Returns the log entries written and whether an exception
\* leaves the function.
send_message(message, delivered) ==
    IF delivered
    THEN [raised |-> FALSE, error |-> NoError,
          logs |-> << <<"INFO", <<"Message sent.">> >> >>]
    ELSE [raised |-> FALSE, error |-> NoError,
          logs |-> << <<"INFO", <<"Could not send the message: ", "<telegram error>">> >> >>]

\* get_api_answer, lines 53-54: the from_date sent with the request.
FromDate(current_timestamp, now) ==
    IF current_timestamp # 0 THEN current_timestamp ELSE int(Float(now))

\* get_api_answer, lines 55-77: what it makes of the answer of requests.get.
get_api_answer(net) ==
    IF net.exc
    THEN Raise(Exc("CustomAPINotAccessError",
                   <<"The data at this address is unavailable: ", "<requests error>">>))
    ELSE IF net.status_code # HTTPStatus_OK
    THEN Raise(Exc("CustomStatusError",
                   <<"Error requesting the main API ", ENDPOINT, ": ",
                     StatusCodeStr(net.status_code)>>))
    ELSE IF ~net.json_ok
    THEN Raise(Exc("ValueError",
                   <<"The data cannot be converted to JSON: ", "<json error>">>))
    ELSE Return(net.body)

\* Variant of check_response: the emptiness of the value is tested before
\* its type.
check_response_empty_first(response) ==
    IF ~response.is_dict
    THEN Raise(Exc("TypeError", <<"The data is not of type: dict">>))
    ELSE IF ~response.has_homeworks
    THEN Raise(Exc("KeyError", <<"The key homeworks is missing.">>))
    ELSE IF response.homeworks = << >>
    THEN Raise(Exc("CustomEmptyListError",
                   <<"The list of works is empty: ", "<response>">>))
    ELSE IF ~response.is_list
    THEN Raise(Exc("CustomNotListError",
                   <<"The works are not stored as a list: ", "<homeworks>">>))
    ELSE Return(response.homeworks)

\* check_response(response)
check_response(response) ==
    IF ~response.is_dict
    THEN Raise(Exc("TypeError", <<"The data is not of type: dict">>))
    ELSE IF ~response.has_homeworks
    THEN Raise(Exc("KeyError", <<"The key homeworks is missing.">>))
    ELSE IF ~response.is_list
    THEN Raise(Exc("CustomNotListError",
                   <<"The works are not stored as a list: ", "<homeworks>">>))
    ELSE IF response.homeworks = << >>
    THEN Raise(Exc("CustomEmptyListError",
                   <<"The list of works is empty: ", "<response>">>))
    ELSE Return(response.homeworks)

\* Variant of parse_status: an empty name counts as missing
\* (if not homework_name).
parse_status_rejects_empty(homework) ==
    IF ~homework.is_dict
    THEN Raise(Exc("AttributeError", <<"object has no attribute 'get'">>))
    ELSE IF homework.homework_name = None \/ homework.homework_name = ""
    THEN Raise(Exc("KeyError", <<"The key homework_name does not exist">>))
    ELSE IF homework.status = None
    THEN Raise(Exc("KeyError", <<"The key homework_status does not exist">>))
    ELSE IF StatusesGet(homework.status) = None
    THEN Raise(Exc("KeyError",
                   <<"The key ", homework.status, " does not exist">>))
    ELSE Return(<<"The review status of the work \"", homework.homework_name,
                  "\" has changed. ", StatusesGet(homework.status)>>)

\* parse_status(homework)
parse_status(homework) ==
    IF ~homework.is_dict
    THEN Raise(Exc("AttributeError", <<"object has no attribute 'get'">>))
    ELSE IF homework.homework_name = None
    THEN Raise(Exc("KeyError", <<"The key homework_name does not exist">>))
    ELSE IF homework.status = None
    THEN Raise(Exc("KeyError", <<"The key homework_status does not exist">>))
    ELSE IF StatusesGet(homework.status) = None
    THEN Raise(Exc("KeyError",
                   <<"The key ", homework.status, " does not exist">>))
    ELSE Return(<<"The review status of the work \"", homework.homework_name,
                  "\" has changed. ", StatusesGet(homework.status)>>)

\* parse_date(homework)
parse_date(homework) ==
    IF ~homework.is_dict
    THEN Raise(Exc("TypeError", <<"indices must be integers">>))
    ELSE IF homework.date_updated.kind = "absent"
    THEN Raise(Exc("KeyError",
                   <<"No data about the date was found: ", "'date_updated'">>))
    ELSE Return(homework.date_updated)

\* Variant of convert_date: a string that is not in the format counts as
\* the epoch.
convert_date_lenient(date, zone) ==
    IF date.kind # "wellformed"
    THEN Return(Float(0))
    ELSE Return(Float(date.wall - zone))

\* convert_date(date): strptime reads the string as a naive wall-clock time
\* and .timestamp() takes it in the host's local zone, zone ahead of UTC.
\* The result is a float.
convert_date(date, zone) ==
    IF date.kind # "wellformed"
    THEN Raise(Exc("ValueError", <<"time data does not match format">>))
    ELSE Return(Float(date.wall - zone))

\* Variant of check_message: every message counts as new.
check_message_always(message, last_message) == TRUE

\* check_message(message, last_message)
check_message(message, last_message) == last_message # message

\* Variant of the test of line 155: only an unset variable counts as missing.
IsNone(variable) == variable = None

\* check_tokens(): the first variable that is unset or empty is logged and
\* the answer is False.
Falsy(variable) == variable = None \/ variable = ""

check_tokens(practicum_token, telegram_token, telegram_chat_id) ==
    IF Falsy(practicum_token)
    THEN [flag |-> FALSE,
          logs |-> << <<"CRITICAL", <<"Environment variable not defined: ", "PRACTICUM_TOKEN">> >> >>]
    ELSE IF Falsy(telegram_token)
    THEN [flag |-> FALSE,
          logs |-> << <<"CRITICAL", <<"Environment variable not defined: ", "TELEGRAM_TOKEN">> >> >>]
    ELSE IF Falsy(telegram_chat_id)
    THEN [flag |-> FALSE,
          logs |-> << <<"CRITICAL", <<"Environment variable not defined: ", "TELEGRAM_CHAT_ID">> >> >>]
    ELSE [flag |-> TRUE, logs |-> << >>]

\* Variant of line 193: the parsed timestamp is taken even when it is 0.
AdvanceCheckpoint_no_fallback(date_updated, current_timestamp) ==
    int(date_updated)

\* int(date_updated) or current_timestamp
AdvanceCheckpoint(date_updated, current_timestamp) ==
    IF int(date_updated) # 0 THEN int(date_updated) ELSE current_timestamp

\* Lines 186-189 of main, call by call: a call that raised ends the try
\* block with its exception; otherwise the block goes on with the value.

\* Line 189, after convert_date: the status line and the timestamp.
AfterConvert(status, date_updated) ==
    IF date_updated.raised THEN date_updated
    ELSE Return([status |-> status, date_updated |-> date_updated.value])

\* Line 189, after parse_date.
AfterParseDate(status, date, zone) ==
    IF date.raised THEN date
    ELSE AfterConvert(status, convert_date(date.value, zone))

\* Line 188, after parse_status.
AfterParseStatus(status, homework, zone) ==
    IF status.raised THEN status
    ELSE AfterParseDate(status.value, parse_date(homework), zone)

\* Line 187, after check_response: the first homework is parsed.
AfterCheck(homeworks_list, zone) ==
    IF homeworks_list.raised THEN homeworks_list
    ELSE AfterParseStatus(parse_status(homeworks_list.value[1]),
                          homeworks_list.value[1], zone)

\* Line 186, after get_api_answer.
AfterFetch(response, zone) ==
    IF response.raised THEN response
    ELSE AfterCheck(check_response(response.value), zone)

\* Lines 186-189 of main: fetch, validate, parse the first homework.
\* Returns the status line and the converted timestamp, or the exception.
FetchAndParse(net, zone) == AfterFetch(get_api_answer(net), zone)

\* What one pass through a block of main leaves behind.
BlockResult(raised, err, text, attempted, last, timestamp, logs, parsed, date) ==
    [raised |-> raised, error |-> err, message |-> text,
     attempted |-> attempted, last_message |-> last,
     current_timestamp |-> timestamp, logs |-> logs,
     parsed |-> parsed, date_updated |-> date]

\* Variant of lines 190-192: last_message is not updated after the send.
Notify_forgets(status, date_updated, send, timestamp, message) ==
    IF check_message(status, message)
    THEN IF send.raised
         THEN BlockResult(TRUE, send.error, status, TRUE, message,
                          timestamp, send.logs, TRUE, date_updated)
         ELSE BlockResult(FALSE, NoError, status, TRUE, message,
                          AdvanceCheckpoint(date_updated, timestamp),
                          send.logs, TRUE, date_updated)
    ELSE BlockResult(FALSE, NoError, status, FALSE, message,
                     AdvanceCheckpoint(date_updated, timestamp),
                     << >>, TRUE, date_updated)

\* Variant of lines 190-193: the checkpoint is advanced only when the
\* status line is sent.
Notify_advance_on_send_only(status, date_updated, send, timestamp, message) ==
    IF check_message(status, message)
    THEN IF send.raised
         THEN BlockResult(TRUE, send.error, status, TRUE, message,
                          timestamp, send.logs, TRUE, date_updated)
         ELSE BlockResult(FALSE, NoError, status, TRUE, status,
                          AdvanceCheckpoint(date_updated, timestamp),
                          send.logs, TRUE, date_updated)
    ELSE BlockResult(FALSE, NoError, status, FALSE, message,
                     timestamp, << >>, TRUE, date_updated)

\* Lines 190-193 of main: the decision, the send and the checkpoint.
Notify(status, date_updated, send, timestamp, message) ==
    IF check_message(status, message)
    THEN IF send.raised
         THEN BlockResult(TRUE, send.error, status, TRUE, message,
                          timestamp, send.logs, TRUE, date_updated)
         ELSE BlockResult(FALSE, NoError, status, TRUE, status,
                          AdvanceCheckpoint(date_updated, timestamp),
                          send.logs, TRUE, date_updated)
    ELSE BlockResult(FALSE, NoError, status, FALSE, message,
                     AdvanceCheckpoint(date_updated, timestamp),
                     << >>, TRUE, date_updated)

TryAfter(p, timestamp, message, delivered) ==
    IF p.raised
    THEN BlockResult(TRUE, p.error, << >>, FALSE, message, timestamp,
                     << >>, FALSE, 0)
    ELSE Notify(p.value.status, p.value.date_updated,
                send_message(p.value.status, delivered), timestamp, message)

\* The try block of main, lines 186-193.
try_block(timestamp, message, net, delivered, zone) ==
    TryAfter(FetchAndParse(net, zone), timestamp, message, delivered)

\* The failure message of the except block, lines 197-201.
FailureMessage(error) ==
    IF error.type = "CustomEmptyListError"
    THEN <<"The list of works is empty for this date.">>
    ELSE <<"Program failure: ">> \o str(error)

FlagInfo(error) == error.type = "CustomEmptyListError"

\* Variant of lines 202-204: last_message is not updated after the send.
NotifyFailure_forgets(message, entry, send, timestamp, last) ==
    IF check_message(message, last)
    THEN IF send.raised
         THEN BlockResult(TRUE, send.error, message, TRUE, last,
                          timestamp, send.logs, FALSE, 0)
         ELSE BlockResult(FALSE, NoError, message, TRUE, last,
                          timestamp, send.logs \o <<entry>>, FALSE, 0)
    ELSE BlockResult(FALSE, NoError, message, FALSE, last,
                     timestamp, <<entry>>, FALSE, 0)

\* Variant of lines 202-205: the message is logged only when it is sent.
NotifyFailure_logs_when_sent(message, entry, send, timestamp, last) ==
    IF check_message(message, last)
    THEN IF send.raised
         THEN BlockResult(TRUE, send.error, message, TRUE, last,
                          timestamp, send.logs, FALSE, 0)
         ELSE BlockResult(FALSE, NoError, message, TRUE, message,
                          timestamp, send.logs \o <<entry>>, FALSE, 0)
    ELSE BlockResult(FALSE, NoError, message, FALSE, last,
                     timestamp, << >>, FALSE, 0)

\* Lines 202-205 of main: the decision, the send and the log entry.
NotifyFailure(message, entry, send, timestamp, last) ==
    IF check_message(message, last)
    THEN IF send.raised
         THEN BlockResult(TRUE, send.error, message, TRUE, last,
                          timestamp, send.logs, FALSE, 0)
         ELSE BlockResult(FALSE, NoError, message, TRUE, message,
                          timestamp, send.logs \o <<entry>>, FALSE, 0)
    ELSE BlockResult(FALSE, NoError, message, FALSE, last,
                     timestamp, <<entry>>, FALSE, 0)

\* Variant of line 205: every message is logged as an error.
LogEntry_always_error(flag_info, message) == <<"ERROR", message>>

\* The log entry of line 205.
LogEntry(flag_info, message) == <<IF flag_info THEN "INFO" ELSE "ERROR", message>>

\* Variant of the except block: a hard error is raised again after it is
\* reported.
except_block_reraises(caught, timestamp, last, delivered) ==
    [NotifyFailure(FailureMessage(caught),
                   LogEntry(FlagInfo(caught), FailureMessage(caught)),
                   send_message(FailureMessage(caught), delivered),
                   timestamp, last)
     EXCEPT !.raised = ~FlagInfo(caught), !.error = caught]

\* Variant of the except block: the checkpoint is cleared, so that the next
\* poll starts from the current time.
except_block_rewinds(caught, timestamp, last, delivered) ==
    NotifyFailure(FailureMessage(caught),
                  LogEntry(FlagInfo(caught), FailureMessage(caught)),
                  send_message(FailureMessage(caught), delivered),
                  0, last)

\* The except block of main, lines 197-205.
except_block(caught, timestamp, last, delivered) ==
    NotifyFailure(FailureMessage(caught),
                  LogEntry(FlagInfo(caught), FailureMessage(caught)),
                  send_message(FailureMessage(caught), delivered),
                  timestamp, last)

\* ------------------------------------------------------------------------
\* State
\* ------------------------------------------------------------------------

VARIABLES
    pc,                 \* position of main: start, try, fetched, sleep, terminated
    PRACTICUM_TOKEN,    \* module-level os.getenv results
    TELEGRAM_TOKEN,
    TELEGRAM_CHAT_ID,
    tz,                 \* the host's offset from UTC
    last_message,       \* main's last_message
    current_timestamp,  \* main's current_timestamp (0 while unbound)
    request,            \* the request of this iteration and the answer to it
    error,              \* the exception that left main, if one did
    last_sent,          \* the text of the latest bot.send_message call
    watch,              \* one send attempt picked out, and the attempts of its text
    cur                 \* record of the latest iteration of the loop

vars == <<pc, PRACTICUM_TOKEN, TELEGRAM_TOKEN, TELEGRAM_CHAT_ID, tz,
          last_message, current_timestamp, request, error, last_sent,
          watch, cur>>

env == <<PRACTICUM_TOKEN, TELEGRAM_TOKEN, TELEGRAM_CHAT_ID, tz>>

\* The record kept of an iteration: which branch it ended in, the exception
\* it caught, the text it computed, whether bot.send_message was called
\* with it and delivered it, the timestamp it parsed, the log entries it
\* wrote, the sleeps it made, and the branch the iteration before it ended
\* in.
IterRecord(branch, caught, text, attempted, delivered, parsed, date, logs, sleeps, previous) ==
    [branch |-> branch, caught |-> caught, message |-> text,
     attempted |-> attempted, delivered |-> delivered, parsed |-> parsed,
     date_updated |-> date, logs |-> logs, sleeps |-> sleeps,
     previous |-> previous]

NoIter == IterRecord("none", NoError, << >>, FALSE, FALSE, FALSE, 0, << >>, 0, "none")

NoWatch == [text |-> << >>, count |-> 0]

\* The request get_api_answer makes, line 56: the from_date it sends and
\* what requests.get does with it.
Request(from_date, net) == [from_date |-> from_date, net |-> net]

NoRequest == Request(0, NetOutcome(TRUE, 0, FALSE, JsonValue(FALSE, FALSE, FALSE, << >>)))

\* The texts an iteration passed to bot.send_message, in order.
Sends(t, e) ==
    (IF t.attempted THEN <<t.message>> ELSE << >>)
    \o (IF t.raised /\ e.attempted THEN <<e.message>> ELSE << >>)

\* The watch after one more send attempt: an attempt of the watched text
\* is counted (2 stands for two or more); while nothing is watched, this
\* attempt is picked (pick) or let pass.
Watched(w, text, pick) ==
    IF w.count = 0
    THEN IF pick THEN [text |-> text, count |-> 1] ELSE w
    ELSE IF w.text = text
    THEN [w EXCEPT !.count = IF w.count < 2 THEN w.count + 1 ELSE 2]
    ELSE w

WatchedAll(w, texts, pick) ==
    IF Len(texts) = 0 THEN w
    ELSE IF Len(texts) = 1 THEN Watched(w, texts[1], pick)
    ELSE Watched(Watched(w, texts[1], pick), texts[2], FALSE)

Init ==
    /\ pc = "start"
    /\ PRACTICUM_TOKEN \in EnvValues
    /\ TELEGRAM_TOKEN \in EnvValues
    /\ TELEGRAM_CHAT_ID \in EnvValues
    /\ tz \in TzOffsets
    /\ last_message = << >>
    /\ current_timestamp = 0
    /\ request = NoRequest
    /\ error = NoError
    /\ last_sent = << >>
    /\ watch = NoWatch
    /\ cur = NoIter

\* main, lines 175-182: the tokens are checked; the bot is built and the
\* checkpoint set to the current time, or CustomTokenError leaves main.
Startup ==
    /\ pc = "start"
    /\ LET c == check_tokens(PRACTICUM_TOKEN, TELEGRAM_TOKEN, TELEGRAM_CHAT_ID) IN
       /\ \E now \in Clock :
             IF c.flag
             THEN /\ pc' = "try"
                  /\ current_timestamp' = int(Float(now))
                  /\ error' = error
             ELSE /\ pc' = "terminated"
                  /\ current_timestamp' = current_timestamp
                  /\ error' = Exc("CustomTokenError",
                                  <<"Environment variable not defined.">>)
       /\ cur' = [cur EXCEPT !.logs = c.logs]
    /\ UNCHANGED <<env, last_message, request, last_sent, watch>>

\* The clock readings get_api_answer can take: time.time() is read only
\* when the checkpoint is 0.
ClockReadings(timestamp) == IF timestamp = 0 THEN Clock ELSE {timestamp}


\* One iteration, lines 185-205: the try block, and the except block when
\* the try block raised. An exception of the except block leaves main.
Handled(t, e) ==
    [raised |-> t.raised /\ e.raised,
     error |-> e.error,
     branch |-> IF t.raised THEN "error" ELSE "success",
     caught |-> IF t.raised THEN t.error ELSE NoError,
     message |-> IF t.raised THEN e.message ELSE t.message,
     attempted |-> IF t.raised THEN e.attempted ELSE t.attempted,
     last_message |-> IF t.raised THEN e.last_message ELSE t.last_message,
     current_timestamp |->
         IF t.raised THEN e.current_timestamp ELSE t.current_timestamp,
     logs |-> IF t.raised THEN t.logs \o e.logs ELSE t.logs,
     parsed |-> t.parsed,
     date_updated |-> t.date_updated,
     sends |-> Sends(t, e)]

AfterTry(t, delivered) ==
    Handled(t, except_block(t.error, t.current_timestamp, t.last_message, delivered))

iteration(timestamp, message, net, delivered, zone) ==
    AfterTry(try_block(timestamp, message, net, delivered, zone), delivered)

\* A send attempt can be picked for the watch when the observer is on.
Picks(observing) == IF observing THEN BOOLEAN ELSE {FALSE}

\* The state main is in after an iteration that ended as r.
Finish(r, delivered, pick) ==
    /\ pc' = IF r.raised THEN "terminated" ELSE "sleep"
    /\ error' = IF r.raised THEN r.error ELSE error
    /\ last_message' = r.last_message
    /\ current_timestamp' = r.current_timestamp
    /\ last_sent' = IF r.sends = << >> THEN last_sent ELSE r.sends[Len(r.sends)]
    /\ watch' = WatchedAll(watch, r.sends, pick)
    /\ cur' = IterRecord(r.branch, r.caught, r.message, r.attempted,
                         r.attempted /\ delivered, r.parsed, r.date_updated,
                         r.logs, 0, cur.branch)

\* main, line 186, and get_api_answer, lines 53-58: the request is made
\* with the checkpoint as from_date, and requests.get answers or raises.
Fetch ==
    /\ pc = "try"
    /\ \E net \in NetOutcomes, now \in ClockReadings(current_timestamp) :
          request' = Request(FromDate(current_timestamp, now), net)
    /\ pc' = "fetched"
    /\ UNCHANGED <<env, last_message, current_timestamp, error, last_sent, watch, cur>>

\* main, lines 186-205: the rest of the iteration, up to its sleep. The
\* bot, if it is called, delivers or fails. With observing, an observer
\* may pick one send attempt and count the attempts of its text.
Iterate(observing) ==
    /\ pc = "fetched"
    /\ \E delivered \in BOOLEAN, pick \in Picks(observing) :
          Finish(iteration(current_timestamp, last_message, request.net, delivered, tz),
                 delivered, pick)
    /\ request' = NoRequest
    /\ UNCHANGED env

\* Variant of lines 194 and 206: main returns after the sleep.
Sleep_returns ==
    /\ pc = "sleep"
    /\ pc' = "terminated"
    /\ cur' = [cur EXCEPT !.sleeps = cur.sleeps + 1]
    /\ UNCHANGED <<env, last_message, current_timestamp, request, error, last_sent, watch>>

\* Variant of lines 194 and 206: the iteration sleeps a second time before
\* the loop starts over.
Sleep_twice ==
    /\ pc = "sleep"
    /\ pc' = IF cur.sleeps = 0 THEN "sleep" ELSE "try"
    /\ cur' = [cur EXCEPT !.sleeps = cur.sleeps + 1]
    /\ UNCHANGED <<env, last_message, current_timestamp, request, error, last_sent, watch>>

\* main, lines 194 and 206: time.sleep(settings.RETRY_TIME) returns and
\* the loop starts over.
Sleep ==
    /\ pc = "sleep"
    /\ pc' = "try"
    /\ cur' = [cur EXCEPT !.sleeps = cur.sleeps + 1]
    /\ UNCHANGED <<env, last_message, current_timestamp, request, error, last_sent, watch>>

Iteration == Iterate(FALSE)

ObservedIteration == Iterate(TRUE)

Next == Startup \/ Fetch \/ Iteration \/ Sleep

Spec == Init /\ [][Next]_vars

\* The program with the observer of send attempts switched on.
ObservedNext == Startup \/ Fetch \/ ObservedIteration \/ Sleep

ObservedSpec == Init /\ [][ObservedNext]_vars

\* A step that ends an iteration. Iteration is enabled whenever main is at
\* "fetched", and its steps are the only ones that leave it.
IterationEnds == pc = "fetched" /\ pc' \in {"sleep", "terminated"}

\* Every call main makes returns or raises: main does not stay forever in
\* the request, inside the iteration that handles the answer, or in the
\* sleep.
FairSpec ==
    Spec /\ WF_vars(Fetch) /\ WF_pc(IterationEnds) /\ WF_vars(Sleep)

\* ------------------------------------------------------------------------
\* Properties
\* ------------------------------------------------------------------------

TypeOK ==
    /\ pc \in {"start", "try", "fetched", "sleep", "terminated"}
    /\ cur.branch \in {"none", "success", "error"}
    /\ watch.count \in 0..2

\* A variable of the environment that is absent or empty.
Missing(variable) == variable \in {None, ""}

\* The number of log entries of the iteration that carry text.
EntriesOf(logs, text) == Cardinality({i \in DOMAIN logs : logs[i][2] = text})

\* C1: on the success path and on the error path, bot.send_message is
\* called with a text only if the text differs from last_message as it is
\* when the decision is taken; of two consecutive iterations that compute
\* the same text, at most one attempts to send it.
C1_SendOnlyNewText ==
    [][pc = "fetched" =>
        /\ (cur'.attempted =>
               /\ cur'.message # last_message
               /\ last_sent' = cur'.message)
        /\ (~cur'.attempted => last_sent' = last_sent)
        /\ (cur.branch # "none" /\ cur'.message = cur.message =>
               ~(cur.attempted /\ cur'.attempted))]_vars

\* An iteration computed the text that is already in last_message and did
\* not send it.
C1_Witness ==
    /\ cur.branch # "none"
    /\ ~cur.attempted
    /\ cur.message = last_message
    /\ last_sent = cur.message

\* C2 as stated: no text is passed to a send attempt a second time. The
\* observer picks any one send attempt; its text is never sent again.
C2_OnceInALifetime == watch.count <= 1

\* C2, amended: a text is never passed to two send attempts in a row; every
\* send attempt passes a text that differs from the text of the send
\* attempt before it, and a text that was sent before is sent again only
\* after another text was sent in between.
C2_NeverTwiceInARow ==
    [][pc = "fetched" /\ cur'.attempted =>
        /\ cur'.message # last_sent
        /\ (watch'.count = 2 /\ watch.count = 1 =>
               last_sent # watch.text /\ cur'.message = watch.text)]_vars

\* A text was passed to a second send attempt, after another text.
C2_Witness ==
    /\ watch.count = 2
    /\ last_sent = watch.text
    /\ cur.attempted

\* C3: when consecutive iterations fail with the same failure message, the
\* first of them attempts one notification and the following attempt none;
\* every failing iteration writes exactly one log entry of the message.
C3_RepeatedFailure ==
    [][pc = "fetched" /\ cur'.branch = "error" =>
        /\ (cur.branch = "error" /\ cur.message = cur'.message =>
               ~cur'.attempted /\ last_sent' = last_sent)
        /\ (~(cur.branch = "error" /\ cur.message = cur'.message) =>
               cur'.attempted /\ last_sent' = cur'.message)
        /\ EntriesOf(cur'.logs, cur'.message) = 1]_vars

\* A failing iteration that follows one with the same message: it sent
\* nothing and logged the failure.
C3_Witness ==
    /\ cur.branch = "error"
    /\ cur.caught.type = "CustomAPINotAccessError"
    /\ ~cur.attempted
    /\ last_message = cur.message
    /\ EntriesOf(cur.logs, cur.message) = 1

\* C4: no exception leaves the loop. main terminates only with the
\* CustomTokenError raised before the first iteration; inside the loop no
\* exception is in flight after an iteration.
C4_NothingEscapesTheLoop ==
    /\ (pc = "terminated" =>
           /\ error.type = "CustomTokenError"
           /\ cur.branch = "none"
           /\ last_sent = << >>)
    /\ (pc \in {"try", "fetched", "sleep"} => error = NoError)

\* An iteration caught an error and the delivery of its notification
\* failed as well; main is at its sleep.
C4_Witness ==
    /\ pc = "sleep"
    /\ cur.branch = "error"
    /\ cur.caught.type = "ValueError"
    /\ cur.attempted
    /\ ~cur.delivered

\* C5: with every call returning or raising, the loop polls again after
\* every iteration: from the sleep main comes back to the try block, from
\* there get_api_answer makes its request, and the iteration that follows
\* reaches the next sleep.
C5_PollsForever ==
    /\ (pc = "sleep") ~> (pc = "try")
    /\ (pc = "try") ~> (pc = "fetched")
    /\ (pc = "fetched") ~> (pc = "sleep")

\* main is back at the try block after a failed iteration and its sleep.
C5_Witness ==
    /\ pc = "try"
    /\ cur.branch = "error"
    /\ cur.sleeps = 1

\* C6: with one of the three variables absent or empty, main ends with
\* CustomTokenError and makes no fetch and no send attempt; with all three
\* present, main enters the loop with last_message empty and the
\* checkpoint at a reading of the clock.
C6_TokensGate ==
    /\ (Missing(PRACTICUM_TOKEN) \/ Missing(TELEGRAM_TOKEN) \/ Missing(TELEGRAM_CHAT_ID) =>
           /\ pc \in {"start", "terminated"}
           /\ pc = "terminated" => error.type = "CustomTokenError"
           /\ cur.branch = "none"
           /\ last_sent = << >>)
    /\ (~Missing(PRACTICUM_TOKEN) /\ ~Missing(TELEGRAM_TOKEN) /\ ~Missing(TELEGRAM_CHAT_ID)
        /\ pc # "start" =>
           /\ pc \in {"try", "fetched", "sleep"}
           /\ cur.branch = "none" =>
                 /\ pc \in {"try", "fetched"}
                 /\ last_message = << >>
                 /\ current_timestamp \in Clock)

\* main ended at startup because the last variable checked is empty.
C6_Witness ==
    /\ pc = "terminated"
    /\ PRACTICUM_TOKEN = "token"
    /\ TELEGRAM_TOKEN = "token"
    /\ TELEGRAM_CHAT_ID = ""

\* C7 as stated: no iteration lowers the checkpoint.
C7_NeverDecreases ==
    [][current_timestamp' >= current_timestamp]_vars

\* C7, amended: the checkpoint does not decrease in an iteration that takes
\* the error branch, or that parses a timestamp T with int(T) zero or at
\* least the checkpoint; an iteration that parses a non-zero timestamp
\* below the checkpoint lowers the checkpoint.
C7_DecreasesOnlyToOlderDate ==
    [][IF /\ pc = "fetched"
          /\ cur'.branch = "success"
          /\ int(cur'.date_updated) # 0
          /\ int(cur'.date_updated) < current_timestamp
        THEN current_timestamp' < current_timestamp
        ELSE current_timestamp' >= current_timestamp]_vars

\* An iteration parsed a zero timestamp and the checkpoint was kept.
C7_Witness ==
    /\ pc = "sleep"
    /\ cur.branch = "success"
    /\ int(cur.date_updated) = 0
    /\ current_timestamp > 0

\* C8: after a successful iteration with converted timestamp T, the
\* checkpoint is int(T) if that is non-zero and its prior value otherwise,
\* whether or not the iteration sent a notification.
C8_CheckpointFromParse ==
    [][pc = "fetched" /\ cur'.branch = "success" =>
        /\ cur'.parsed
        /\ int(cur'.date_updated) # 0 => current_timestamp' = int(cur'.date_updated)
        /\ int(cur'.date_updated) = 0 => current_timestamp' = current_timestamp]_vars

\* A successful iteration that sent nothing moved the checkpoint to its
\* parsed timestamp.
C8_Witness ==
    /\ pc = "sleep"
    /\ cur.branch = "success"
    /\ ~cur.attempted
    /\ int(cur.date_updated) = MaxTime
    /\ current_timestamp = MaxTime

\* C9: an iteration that takes the error branch leaves the checkpoint as
\* it was; only an iteration that parsed its item to the end changes it.
C9_ErrorKeepsCheckpoint ==
    [][pc = "fetched" =>
        /\ (cur'.branch = "error" => current_timestamp' = current_timestamp)
        /\ (current_timestamp' # current_timestamp =>
               cur'.branch = "success" /\ cur'.parsed)]_vars

\* An iteration failed on the date after the status was parsed; the
\* checkpoint is the one a successful iteration had set before.
C9_Witness ==
    /\ pc = "sleep"
    /\ cur.branch = "error"
    /\ cur.caught.type = "ValueError"
    /\ cur.caught.args = <<"time data does not match format">>
    /\ current_timestamp = 0 - 1

EntriesAt(logs, level) == Cardinality({i \in DOMAIN logs : logs[i][1] = level})

\* C11 as stated: an iteration whose poll returns an empty list writes
\* exactly one informational log entry; it attempts one notification with
\* the empty-list text unless the iteration before it got an empty list
\* too, and then it attempts none.
C11_OneInformationalEntry ==
    [][pc = "fetched" /\ cur'.caught.type = "CustomEmptyListError" =>
        /\ EntriesAt(cur'.logs, "INFO") = 1
        /\ (cur.caught.type # "CustomEmptyListError" =>
               /\ cur'.attempted
               /\ last_sent' = <<"The list of works is empty for this date.">>)
        /\ (cur.caught.type = "CustomEmptyListError" =>
               ~cur'.attempted /\ last_sent' = last_sent)]_vars

\* C11, amended: an iteration whose poll returns an empty list writes
\* exactly one log entry of the empty-list text, at informational severity,
\* and no entry at another severity; when it attempts the notification,
\* send_message writes one more informational entry, on the outcome of the
\* delivery. It attempts one notification with the empty-list text unless
\* the iteration before it got an empty list too, and then it attempts none.
C11_EmptyListOnce ==
    [][pc = "fetched" /\ cur'.caught.type = "CustomEmptyListError" =>
        /\ cur'.message = <<"The list of works is empty for this date.">>
        /\ EntriesOf(cur'.logs, cur'.message) = 1
        /\ EntriesAt(cur'.logs, "INFO") = Len(cur'.logs)
        /\ Len(cur'.logs) = IF cur'.attempted THEN 2 ELSE 1
        /\ (cur.caught.type # "CustomEmptyListError" =>
               /\ cur'.attempted
               /\ last_sent' = cur'.message)
        /\ (cur.caught.type = "CustomEmptyListError" =>
               ~cur'.attempted /\ last_sent' = last_sent)]_vars

\* An empty list came a second time in a row: nothing was sent, and the
\* empty-list text was logged once more.
C11_Witness ==
    /\ pc = "sleep"
    /\ cur.caught.type = "CustomEmptyListError"
    /\ ~cur.attempted
    /\ last_sent = <<"The list of works is empty for this date.">>
    /\ cur.logs = << <<"INFO", <<"The list of works is empty for this date.">> >> >>

\* The poll of the request was answered with a mapping whose 'homeworks'
\* is an empty list.
EmptyListAnswer(r) ==
    /\ ~r.net.exc
    /\ r.net.status_code = 200
    /\ r.net.json_ok
    /\ r.net.body.is_dict
    /\ r.net.body.has_homeworks
    /\ r.net.body.is_list
    /\ r.net.body.homeworks = << >>

\* C12: in the error branch, the message and the severity of its log entry
\* follow the kind of the error. The error is CustomEmptyListError exactly
\* when the answer holds an empty list, and then the message is the fixed
\* empty-list text, logged at INFO; for every other error the message is
\* "Program failure: " followed by the text of the error, logged at ERROR.
C12_MessageAndSeverityByKind ==
    [][pc = "fetched" /\ cur'.branch = "error" =>
        /\ cur'.caught.type = "CustomEmptyListError" <=> EmptyListAnswer(request)
        /\ Len(cur'.logs) >= 1
        /\ IF cur'.caught.type = "CustomEmptyListError"
           THEN /\ cur'.message = <<"The list of works is empty for this date.">>
                /\ cur'.logs[Len(cur'.logs)] = <<"INFO", cur'.message>>
                /\ EntriesAt(cur'.logs, "ERROR") = 0
           ELSE /\ cur'.message = <<"Program failure: ">> \o str(cur'.caught)
                /\ cur'.caught.args # << >>
                /\ cur'.logs[Len(cur'.logs)] = <<"ERROR", cur'.message>>
                /\ EntriesAt(cur'.logs, "ERROR") = 1]_vars

\* An answer whose 'homeworks' is not a list was reported with the generic
\* message and logged as an error.
C12_Witness ==
    /\ pc = "sleep"
    /\ cur.caught.type = "CustomNotListError"
    /\ cur.message = <<"Program failure: ", "The works are not stored as a list: ", "<homeworks>">>
    /\ cur.logs[Len(cur.logs)] = <<"ERROR", cur.message>>

\* get_api_answer returned the decoded body of the answer.
Decoded(r) == ~r.net.exc /\ r.net.status_code = 200 /\ r.net.json_ok

\* The class of the exception check_response is to raise on a response, ""
\* when it is to return.
ResponseFault(response) ==
    IF ~response.is_dict THEN "TypeError"
    ELSE IF ~response.has_homeworks THEN "KeyError"
    ELSE IF ~response.is_list THEN "CustomNotListError"
    ELSE IF Len(response.homeworks) = 0 THEN "CustomEmptyListError"
    ELSE ""

\* The outcome of a call is the one wanted: an exception of the class
\* fault, or the value when fault is "".
Outcome(result, fault, value) ==
    IF fault = "" THEN ~result.raised /\ result.value = value
    ELSE result.raised /\ result.error.type = fault

\* C13: on every decoded answer, check_response raises TypeError for a
\* non-mapping, else KeyError without the key 'homeworks', else
\* CustomNotListError when the value is not a list, else
\* CustomEmptyListError when the list is empty, and otherwise returns the
\* list under 'homeworks' as it is; the iteration fails with that exception
\* or goes on to parse the first element of that list, and check_response
\* itself changes nothing.
C13_CheckResponseOrder ==
    [][pc = "fetched" /\ Decoded(request) =>
        /\ Outcome(check_response(request.net.body),
                   ResponseFault(request.net.body), request.net.body.homeworks)
        /\ (ResponseFault(request.net.body) # "" =>
               /\ cur'.branch = "error"
               /\ cur'.caught.type = ResponseFault(request.net.body)
               /\ cur'.caught = check_response(request.net.body).error)
        /\ (ResponseFault(request.net.body) = "" =>
               /\ cur'.caught.type
                     \notin {"CustomNotListError", "CustomEmptyListError"}
               /\ cur'.caught.args # <<"The key homeworks is missing.">>
               /\ cur'.caught.args # <<"The data is not of type: dict">>
               /\ (parse_status(request.net.body.homeworks[1]).raised =>
                      cur'.caught = parse_status(request.net.body.homeworks[1]).error))]_vars

\* An answer without the key 'homeworks' ended the iteration with the
\* KeyError of check_response.
C13_Witness ==
    /\ pc = "sleep"
    /\ cur.caught = Exc("KeyError", <<"The key homeworks is missing.">>)
    /\ cur.message = <<"Program failure: ", "'", "The key homeworks is missing.", "'">>

\* The answer holds a non-empty list whose first element is a mapping:
\* main hands that element to parse_status.
ItemReceived(r) ==
    /\ Decoded(r)
    /\ ResponseFault(r.net.body) = ""
    /\ r.net.body.homeworks[1].is_dict

FirstItem(r) == r.net.body.homeworks[1]

\* The status line of a name and a status code of the catalog.
StatusLine(homework_name, status) ==
    <<"The review status of the work \"", homework_name, "\" has changed. ",
      HOMEWORK_STATUSES[status]>>

\* parse_status raised its KeyError on the item and the iteration failed
\* with it.
StatusRejected(r, after) ==
    /\ parse_status(FirstItem(r)).raised
    /\ parse_status(FirstItem(r)).error.type = "KeyError"
    /\ after.branch = "error"
    /\ after.caught = parse_status(FirstItem(r)).error

\* parse_status returned the status line of the item, and an iteration
\* that went on to the end computed that line.
StatusAccepted(r, after) ==
    /\ ~parse_status(FirstItem(r)).raised
    /\ parse_status(FirstItem(r)).value
          = StatusLine(FirstItem(r).homework_name, FirstItem(r).status)
    /\ (after.branch = "success" =>
           after.message = StatusLine(FirstItem(r).homework_name, FirstItem(r).status))
    /\ (after.branch = "error" =>
           after.caught.args \in {<<"No data about the date was found: ", "'date_updated'">>,
                                  <<"time data does not match format">>})

\* C14 as stated: parse_status fails with KeyError when the name or the
\* status code of the item is absent or empty or the status code is not a
\* key of the catalog, and returns the status line otherwise.
C14_RejectsAbsentOrEmpty ==
    [][pc = "fetched" /\ ItemReceived(request) =>
        IF \/ FirstItem(request).homework_name \in {None, ""}
           \/ FirstItem(request).status \in {None, ""}
           \/ FirstItem(request).status \notin DOMAIN HOMEWORK_STATUSES
        THEN StatusRejected(request, cur')
        ELSE StatusAccepted(request, cur')]_vars

\* C14, amended: parse_status fails with KeyError when the name or the
\* status code of the item is absent (None) or the status code, the empty
\* one included, is not a key of the catalog; it returns the status line,
\* with the name and the verdict of the catalog, when the name is present,
\* be it empty, and the status code is a key of the catalog.
C14_RejectsAbsentOnly ==
    [][pc = "fetched" /\ ItemReceived(request) =>
        IF \/ FirstItem(request).homework_name = None
           \/ FirstItem(request).status = None
           \/ FirstItem(request).status \notin DOMAIN HOMEWORK_STATUSES
        THEN StatusRejected(request, cur')
        ELSE StatusAccepted(request, cur')]_vars

\* The status line of an item with an empty name was computed and sent.
C14_Witness ==
    /\ pc = "sleep"
    /\ cur.branch = "success"
    /\ cur.attempted
    /\ cur.message = StatusLine("", "approved")
    /\ last_message = cur.message

\* C15: every poll sends the checkpoint as from_date: once main is in the
\* loop the checkpoint is never 0, so get_api_answer never falls back to
\* the clock.
C15_FromDateIsCheckpoint ==
    /\ (pc \in {"try", "fetched", "sleep"} => current_timestamp # 0)
    /\ (pc = "fetched" => request.from_date = current_timestamp)

\* A poll is under way after an iteration that parsed the timestamp 0 and
\* kept the checkpoint it had.
C15_Witness ==
    /\ pc = "fetched"
    /\ cur.branch = "success"
    /\ int(cur.date_updated) = 0
    /\ request.from_date = current_timestamp

\* C16: for a date_updated in the format, which reads an instant in UTC,
\* the timestamp the iteration converts it to is the Unix timestamp of
\* that instant, whatever the time zone of the host.
C16_TimestampIsUTC ==
    [][pc = "fetched" /\ ItemReceived(request)
       /\ ~parse_status(FirstItem(request)).raised
       /\ FirstItem(request).date_updated.kind = "wellformed" =>
          /\ cur'.parsed
          /\ cur'.date_updated = Float(FirstItem(request).date_updated.wall)]_vars

\* The item the iteration parses has a status line but no usable date.
DateUnusable(r) ==
    /\ ItemReceived(r)
    /\ FirstItem(r).homework_name # None
    /\ FirstItem(r).status \in DOMAIN HOMEWORK_STATUSES
    /\ FirstItem(r).date_updated.kind # "wellformed"

\* C17: a status line is sent, and taken into last_message, only by an
\* iteration that also extracted and converted the date of its item; when
\* the date is missing or malformed the iteration takes the error branch
\* with the generic failure message, and the status line of the item is
\* neither sent nor taken into last_message.
C17_StatusNeedsDate ==
    [][pc = "fetched" =>
        /\ (cur'.branch = "success" =>
               /\ cur'.parsed
               /\ ItemReceived(request)
               /\ FirstItem(request).date_updated.kind = "wellformed"
               /\ cur'.date_updated = Float(FirstItem(request).date_updated.wall - tz))
        /\ (DateUnusable(request) =>
               /\ cur'.branch = "error"
               /\ ~cur'.parsed
               /\ cur'.message = <<"Program failure: ">> \o str(cur'.caught)
               /\ last_sent' # StatusLine(FirstItem(request).homework_name,
                                          FirstItem(request).status)
               /\ last_message' # StatusLine(FirstItem(request).homework_name,
                                             FirstItem(request).status)
               /\ last_message' = cur'.message)]_vars

\* An item without date_updated: the failure was reported in place of the
\* status line.
C17_Witness ==
    /\ pc = "sleep"
    /\ cur.branch = "error"
    /\ cur.caught.args = <<"No data about the date was found: ", "'date_updated'">>
    /\ cur.attempted
    /\ last_message = cur.message

\* C18: between two consecutive polls main sleeps exactly once: a poll is
\* the first one or follows one sleep, every iteration that does not end
\* main goes to its sleep, on the success path and on the error path, and
\* after the one sleep the loop starts over.
C18_OneSleepBetweenPolls ==
    [][/\ (pc = "try" /\ pc' = "fetched" =>
              \/ cur.branch = "none" /\ cur.sleeps = 0
              \/ cur.branch # "none" /\ cur.sleeps = 1)
       /\ (pc = "fetched" =>
              /\ cur'.sleeps = 0
              /\ cur'.branch \in {"success", "error"}
              /\ pc' = "sleep")
       /\ (pc = "sleep" =>
              /\ cur.sleeps = 0
              /\ cur'.sleeps = 1
              /\ pc' = "try")]_vars

\* A poll is under way after a successful iteration and its one sleep.
C18_Witness ==
    /\ pc = "fetched"
    /\ cur.branch = "success"
    /\ cur.sleeps = 1

\* C19: between iterations last_message is the text of the latest send
\* attempt, delivered or not; it is the empty string exactly while no
\* iteration has run, the first iteration always making a send attempt; an
\* iteration that makes no send attempt leaves last_message as it was.
C19_LastMessageIsLastAttempt ==
    [][/\ last_message' = last_sent'
       /\ (last_message' = << >> <=> cur'.branch = "none")
       /\ (pc = "fetched" =>
              /\ (cur'.attempted =>
                     last_message' = cur'.message /\ cur'.message # << >>)
              /\ (~cur'.attempted => last_message' = last_message)
              /\ (cur.branch = "none" => cur'.attempted))]_vars

\* A send attempt failed to deliver and its text is in last_message; a
\* later iteration sent nothing and left it there.
C19_Witness ==
    /\ pc = "sleep"
    /\ cur.previous # "none"
    /\ ~cur.attempted
    /\ last_message = last_sent
    /\ last_message = cur.message

\* A text of the error branch.
IsFailureText(text) ==
    /\ text # << >>
    /\ text[1] \in {"Program failure: ", "The list of works is empty for this date."}

\* C20: after an iteration of the error branch, last_message is a text of
\* the error branch, and the next successful iteration attempts to send its
\* status line, also when that line was sent before the error.
C20_ErrorResetsDedup ==
    [][pc = "fetched" =>
        /\ (cur.branch = "error" <=> IsFailureText(last_message))
        /\ (cur.branch = "error" /\ cur'.branch = "success" =>
               /\ cur'.attempted
               /\ last_sent' = cur'.message
               /\ last_message' = cur'.message)]_vars

\* A status line was sent a second time, by the successful iteration that
\* followed an iteration of the error branch.
C20_Witness ==
    /\ cur.previous = "error"
    /\ cur.branch = "success"
    /\ cur.attempted
    /\ watch.count = 2
    /\ watch.text = cur.message

====
